---- MODULE Spec2Model ----
(***************************************************************************)
(* Model of type_status_response_summary.py: one run of main() over the    *)
(* data directory - locate the latest export, load it, select the seven    *)
(* windows, aggregate each by type, and write the summary atomically.      *)
(*                                                                         *)
(* Encoding of Python values:                                              *)
(*   - an optional JSON field is a sequence: <<>> is None / missing key,   *)
(*     <<v>> is the value v;                                               *)
(*   - time is counted in whole hours; a timestamp string is               *)
(*     [form, wall, off]: its wall-clock reading, its UTC offset and the   *)
(*     way it is written ("Z" suffix, "+hh:00" offset, naive, unparsable   *)
(*     text, or the empty string);                                         *)
(*   - a file name is its stem split at "_" plus its extension;            *)
(*   - an uncaught exception ends the run in pc = "crashed", a handled one *)
(*     in pc = "aborted"; SIGKILL ends it in pc = "killed".                *)
(***************************************************************************)
EXTENDS Integers, Sequences, FiniteSets, TLC

VARIABLES fs, pc, latest_file, export_ts, records, now, windows,
          summary_data, wi, tmp_path, exc, pre, cleanup, killed_at, run1,
          writers, dl, log

vars == <<fs, pc, latest_file, export_ts, records, now, windows,
          summary_data, wi, tmp_path, exc, pre, cleanup, killed_at, run1, writers, dl, log>>

\* Longest record list a snapshot holds.
MaxRecs == 3

None == <<>>

Some(v) == <<v>>

\* Python truthiness of an optional string field: None and "" are falsy.
Truthy(f) == f # None /\ f[1] # ""

------------------------------------------------------------------------------
(* Timestamps *)

TS(form, wall, off) == Some([form |-> form, wall |-> wall, off |-> off])

\* datetime.now(timezone.utc): an aware datetime at offset 0.
UtcNow(h) == [wall |-> h, aware |-> TRUE, off |-> 0]

\* parse_datetime_iso: None for a falsy or unparsable value, else the
\* datetime; "Z" is rewritten to "+00:00", a naive string stays naive.
parse_datetime_iso(s) ==
    IF s = None \/ s[1].form = "empty" THEN None
    ELSE IF s[1].form = "bad" THEN None
    ELSE Some([wall |-> s[1].wall,
               aware |-> s[1].form \in {"Z", "offset"},
               off |-> IF s[1].form = "offset" THEN s[1].off ELSE 0])

\* datetime comparison and subtraction raise TypeError when exactly one
\* operand is timezone-aware.
DtMixed(a, b) == a.aware # b.aware

\* The value two datetimes of the same kind are compared by: the UTC
\* instant for aware ones, the wall clock for naive ones.
DtKey(a) == IF a.aware THEN a.wall - a.off ELSE a.wall

DtGE(a, b) == DtKey(a) >= DtKey(b)

DtGT(a, b) == DtKey(a) > DtKey(b)

\* (a - b).total_seconds() / 3600.0
DtDiffHours(a, b) == DtKey(a) - DtKey(b)

\* now - timedelta(hours=h)
DtMinusHours(a, h) == [a EXCEPT !.wall = @ - h]

------------------------------------------------------------------------------
(* Windows *)

\* The lineup with timedelta(hours=30) written for the 30-day window.
WindowSpecsHoursForDays ==
    << [label |-> "All-Time",     bounded |-> FALSE, hours |-> 0],
       [label |-> "Last 90 Days", bounded |-> TRUE,  hours |-> 90 * 24],
       [label |-> "Last 60 Days", bounded |-> TRUE,  hours |-> 60 * 24],
       [label |-> "Last 30 Days", bounded |-> TRUE,  hours |-> 30],
       [label |-> "Last 7 Days",  bounded |-> TRUE,  hours |-> 7 * 24],
       [label |-> "Last 1 Days",  bounded |-> TRUE,  hours |-> 1 * 24],
       [label |-> "Last 4 Hours", bounded |-> TRUE,  hours |-> 4] >>

\* The window lineup of main(), durations in hours; All-Time is unbounded.
WindowSpecs ==
    << [label |-> "All-Time",     bounded |-> FALSE, hours |-> 0],
       [label |-> "Last 90 Days", bounded |-> TRUE,  hours |-> 90 * 24],
       [label |-> "Last 60 Days", bounded |-> TRUE,  hours |-> 60 * 24],
       [label |-> "Last 30 Days", bounded |-> TRUE,  hours |-> 30 * 24],
       [label |-> "Last 7 Days",  bounded |-> TRUE,  hours |-> 7 * 24],
       [label |-> "Last 1 Days",  bounded |-> TRUE,  hours |-> 1 * 24],
       [label |-> "Last 4 Hours", bounded |-> TRUE,  hours |-> 4] >>

NumWindowsShort == Len(WindowSpecs) - 1

NumWindows == Len(WindowSpecs)

WindowLabels == {WindowSpecs[i].label : i \in 1..NumWindows}

\* The test written with > : a record created exactly at the cutoff is lost.
SinceStrict(d, cutoff) == DtGT(d, cutoff)

\* The test `d >= now - timedelta(...)` of one comprehension.
Since(d, cutoff) == DtGE(d, cutoff)

\* One list comprehension [r for r in records if (d := parse(...)) and
\* d >= cutoff], evaluated left to right: the list, or the exception the
\* first offending record raises.
RECURSIVE WindowFilter(_, _, _)
WindowFilter(recs, cutoff, acc) ==
    IF recs = <<>> THEN [raised |-> "", out |-> acc]
    ELSE LET d == parse_datetime_iso(Head(recs).createddate) IN
         IF d = None THEN WindowFilter(Tail(recs), cutoff, acc)
         ELSE IF DtMixed(d[1], cutoff)
              THEN [raised |-> "TypeError", out |-> <<>>]
         ELSE IF Since(d[1], cutoff)
              THEN WindowFilter(Tail(recs), cutoff, Append(acc, Head(recs)))
         ELSE WindowFilter(Tail(recs), cutoff, acc)

------------------------------------------------------------------------------
(* Type Aggregator *)

RECURSIVE Gcd(_, _)
Gcd(a, b) == IF b = 0 THEN a ELSE Gcd(b, a % b)

RECURSIVE SeqSum(_)
SeqSum(s) == IF s = <<>> THEN 0 ELSE Head(s) + SeqSum(Tail(s))

\* JSON null for avg_response_hours.
NullAvg == [null |-> TRUE, num |-> 0, den |-> 1]

\* sum(times) / len(times), kept as the exact fraction in lowest terms.
Mean(times) ==
    LET n == SeqSum(times)
        d == Len(times)
        g == Gcd(n, d)
    IN [null |-> FALSE, num |-> n \div g, den |-> d \div g]

\* The defaultdict entry created on first access.
NewEntry == [total |-> 0, status_counts |-> <<>>, response_times_hours |-> <<>>]

\* An entry that is built afresh for every record.
EntryReset(agg, t) == NewEntry

\* agg[t], creating the entry when t is new.
Entry(agg, t) == IF t \in DOMAIN agg THEN agg[t] ELSE NewEntry

\* A counter that is set instead of incremented.
BumpOnce(counter, s) == (s :> 1) @@ counter

\* Counter()[s] += 1
Bump(counter, s) ==
    IF s \in DOMAIN counter
    THEN [counter EXCEPT ![s] = @ + 1]
    ELSE (s :> 1) @@ counter

\* The default applied to a missing value only.
OrUnknownIfMissing(f) == IF f = None THEN "Unknown" ELSE f[1]

\* rec.get(key) or "Unknown"
OrUnknown(f) == IF Truthy(f) THEN f[1] ELSE "Unknown"

\* The test written with >= : a zero delta is counted.
QualifiesLoose(created, closed) == DtGE(closed, created)

\* closed > created, both being datetimes of the same kind.
Qualifies(created, closed) == DtGT(closed, created)

\* The body of the loop of summarize_by_type for one record: the updated
\* agg, or the TypeError a naive/aware pair raises.
AddRecord(agg, rec) ==
    LET t == OrUnknown(rec.type)
        s == OrUnknown(rec.status)
        e == Entry(agg, t)
        counted == [e EXCEPT !.total = @ + 1,
                             !.status_counts = Bump(@, s)]
        created == parse_datetime_iso(rec.createddate)
        closed == parse_datetime_iso(rec.closeddate)
    IN IF created = None \/ closed = None
       THEN [raised |-> "", agg |-> (t :> counted) @@ agg]
       ELSE IF DtMixed(closed[1], created[1])
       THEN [raised |-> "TypeError", agg |-> agg]
       ELSE IF Qualifies(created[1], closed[1])
       THEN [raised |-> "",
             agg |-> (t :> [counted EXCEPT !.response_times_hours =
                               Append(@, DtDiffHours(closed[1], created[1]))])
                     @@ agg]
       ELSE [raised |-> "", agg |-> (t :> counted) @@ agg]

RECURSIVE Accumulate(_, _)
Accumulate(recs, agg) ==
    IF recs = <<>> THEN [raised |-> "", agg |-> agg]
    ELSE LET r == AddRecord(agg, Head(recs)) IN
         IF r.raised # "" THEN r
         ELSE Accumulate(Tail(recs), r.agg)

\* summarize_by_type: the pass over the records, then the mean per type.
summarize_by_type(recs) ==
    LET r == Accumulate(recs, <<>>) IN
    IF r.raised # "" THEN r
    ELSE [raised |-> "",
          agg |-> [t \in DOMAIN r.agg |->
                     [total |-> r.agg[t].total,
                      status_counts |-> r.agg[t].status_counts,
                      response_times_hours |-> r.agg[t].response_times_hours,
                      avg_response_hours |->
                          IF r.agg[t].response_times_hours # <<>>
                          THEN Mean(r.agg[t].response_times_hours)
                          ELSE NullAvg]]]

\* The entry main() stores under summary_data[label]["types"].
TypesOf(agg) ==
    [t \in DOMAIN agg |->
        [total |-> agg[t].total,
         status_counts |-> agg[t].status_counts,
         avg_response_hours |-> agg[t].avg_response_hours]]

------------------------------------------------------------------------------
(* File names and file contents *)

Name(parts) == [parts |-> parts, ext |-> "json"]

\* Path(filename).stem.split("_")[-1]
LastToken(name) == name.parts[Len(name.parts)]

\* A parser that falls back to a fixed date when the text does not match.
StrptimeWithFallback(tok) ==
    CASE tok = "2025-10-16T1200Z" -> Some(6924)
      [] tok = "2025-10-17T0000Z" -> Some(6936)
      [] OTHER -> Some(6657)

\* datetime.strptime(ts_str, "%Y-%m-%dT%H%MZ") as hours since
\* 2025-01-01T00:00Z, or None when the text does not match the format;
\* %d also accepts a day written without its leading zero.
Strptime(tok) ==
    CASE tok = "2025-10-16T1200Z" -> Some(6924)
      [] tok = "2025-10-17T0000Z" -> Some(6936)
      [] tok = "2025-10-5T0900Z"  -> Some(6657)
      [] tok = "2025-10-05T0900Z" -> Some(6657)
      [] OTHER -> None

\* export_ts.strftime("%Y-%m-%dT%H%MZ"): always zero-padded.
Strftime(ts) ==
    CASE ts = 6924 -> "2025-10-16T1200Z"
      [] ts = 6936 -> "2025-10-17T0000Z"
      [] ts = 6657 -> "2025-10-05T0900Z"

extract_timestamp_from_filename(name) == Strptime(LastToken(name))

\* Path(data_dir).glob("service_requests_full_*.json")
IsExportName(name) ==
    /\ name.ext = "json"
    /\ Len(name.parts) >= 4
    /\ SubSeq(name.parts, 1, 3) = <<"service", "requests", "full">>

Glob(files) == {n \in DOMAIN files : IsExportName(n)}

DatedFiles(files) ==
    {n \in Glob(files) : extract_timestamp_from_filename(n) # None}

\* min written for max: the oldest export is taken.
EarliestFiles(files) ==
    {n \in DatedFiles(files) :
        \A m \in DatedFiles(files) :
            extract_timestamp_from_filename(n)[1]
                <= extract_timestamp_from_filename(m)[1]}

\* The files max(dated_files, key=ts) may return: those of greatest
\* timestamp (glob order decides among equal timestamps).
LatestFiles(files) ==
    {n \in DatedFiles(files) :
        \A m \in DatedFiles(files) :
            extract_timestamp_from_filename(n)[1]
                >= extract_timestamp_from_filename(m)[1]}

\* f"{DATA_DIR}/summary_stats_{export_ts.strftime(...)}.json"
SummaryPath(ts) == Name(<<"summary", "stats", Strftime(ts)>>)

\* tempfile.mkstemp(prefix="tmp_summary_", suffix=".json", dir=...)
TmpName(rnd) == Name(<<"tmp", "summary", rnd>>)

IsSummaryName(name) ==
    Len(name.parts) = 3 /\ SubSeq(name.parts, 1, 2) = <<"summary", "stats">>

IsTmpName(name) ==
    Len(name.parts) = 3 /\ SubSeq(name.parts, 1, 2) = <<"tmp", "summary">>

\* Contents of an export file: the JSON top-level value, or text that
\* json.load rejects.
JList(recs)    == [kind |-> "export", json |-> "list", items |-> recs]

JWrapped(recs) == [kind |-> "export", json |-> "dict_results", items |-> recs]

JDict(keys)    == [kind |-> "export", json |-> "dict", items |-> keys]

JStr(chars)    == [kind |-> "export", json |-> "str", items |-> chars]

JNum           == [kind |-> "export", json |-> "int", items |-> <<>>]

JNull          == [kind |-> "export", json |-> "null", items |-> <<>>]

JInvalid       == [kind |-> "export", json |-> "invalid", items |-> <<>>]

\* Contents of a summary or temporary file: the document being
\* serialized and whether all of its text is in the file.
Doc(doc, complete) == [kind |-> "summary", doc |-> doc, complete |-> complete]

\* json.dump writes through the text buffer: until flush() the file holds a
\* strict prefix of the text.
Prefix(doc) == Doc(doc, FALSE)

Full(doc) == Doc(doc, TRUE)

\* The file at a path, as an optional value.
FileAt(files, name) == IF name \in DOMAIN files THEN Some(files[name]) ELSE None

\* The directory without one file.
Without(files, name) == [n \in DOMAIN files \ {name} |-> files[n]]

\* A rename that gives way to a file already at the destination.
ReplaceIfAbsent(files, src, dst) ==
    IF dst \in DOMAIN files THEN Without(files, src)
    ELSE (dst :> files[src]) @@ Without(files, src)

\* A copy in place of the rename: the destination fills up gradually.
ReplaceByCopy(files, src, dst) == (dst :> Prefix(files[src].doc)) @@ files

\* os.replace(src, dst): dst takes src's content and src disappears, in
\* one step.
Replace(files, src, dst) == (dst :> files[src]) @@ Without(files, src)

\* The value load_export_readonly returns for a parsed JSON value.
Unwrap(content) ==
    CASE content.json = "dict_results" -> [py |-> "list", items |-> content.items]
      [] content.json = "list"         -> [py |-> "list", items |-> content.items]
      [] content.json = "dict"         -> [py |-> "dict", items |-> content.items]
      [] content.json = "str"          -> [py |-> "str",  items |-> content.items]
      [] content.json = "int"          -> [py |-> "int",  items |-> <<>>]
      [] content.json = "null"         -> [py |-> "none", items |-> <<>>]

NoRecords == [py |-> "none", items |-> <<>>]

\* `for r in records`: TypeError for a value that is not iterable.
Iterable(v) == v.py \in {"list", "dict", "str"}

\* r.get(...) exists on the elements of a record list only; iterating a
\* dict yields its keys and iterating a string its characters.
HasGet(v) == v.py = "list"

------------------------------------------------------------------------------
(* Inputs *)

Rec(t, s, c, cl) ==
    [type |-> t, status |-> s, createddate |-> c, closeddate |-> cl]

\* The values datetime.now(timezone.utc) takes at line 189, in hours since
\* 2025-01-01T00:00Z.
NowChoices == {7000}

\* Records for the runs that exercise the error paths: every way a
\* timestamp can be written, for both fields.
PoolMain ==
    {Rec(Some("Pothole"), Some("Closed"), c, cl) :
        c \in {None, TS("bad", 0, 0), TS("Z", 6990, 0), TS("naive", 6990, 0)},
        cl \in {None, TS("Z", 6995, 0), TS("naive", 6995, 0)}}

\* Records for the window selection: creation times on and next to every
\* window boundary of now = 7000, one written with a UTC offset
\* (6968-08:00 is 6976Z, exactly one day old), and the unusable forms.
PoolWin ==
    {Rec(Some("Pothole"), Some("Open"), c, None) :
        c \in {None, TS("bad", 0, 0), TS("naive", 6999, 0),
               TS("Z", 7000 - 4, 0), TS("Z", 7000 - 5, 0),
               TS("Z", 7000 - 7 * 24, 0), TS("Z", 7000 - 30 * 24, 0),
               TS("Z", 7000 - 60 * 24, 0), TS("Z", 7000 - 90 * 24, 0),
               TS("Z", 7000 - 90 * 24 - 1, 0),
               TS("offset", 7000 - 24 - 8, 0 - 8)}}

\* Records for the aggregation, all created at 6990Z: Pothole closed
\* after 2 h, after 4 h (written with an offset: 6986-08:00 is 6994Z), at
\* the same instant, before, never, unparsably, or (naive) in a way that
\* cannot be compared; Graffiti closed after 2 h or never; and a record
\* without type closed after 2 h.
PoolAgg ==
    {Rec(Some("Pothole"), Some("Closed"), TS("Z", 6990, 0), cl) :
        cl \in {TS("Z", 6992, 0), TS("offset", 6986, 0 - 8),
                TS("Z", 6990, 0), TS("Z", 6989, 0),
                TS("bad", 0, 0), TS("naive", 6999, 0)}}
    \cup
    {Rec(t, Some("Open"), TS("Z", 6990, 0), None) :
        t \in {Some("Pothole"), Some("Graffiti")}}
    \cup
    {Rec(t, Some("Closed"), TS("Z", 6990, 0), TS("Z", 6992, 0)) :
        t \in {None, Some("Graffiti")}}

RECURSIVE SeqsUpTo(_, _)
SeqsUpTo(S, n) ==
    IF n = 0 THEN {<<>>}
    ELSE LET shorter == SeqsUpTo(S, n - 1) IN
         shorter \cup {Append(q, x) : q \in {z \in shorter : Len(z) = n - 1}, x \in S}

ExportNames ==
    { Name(<<"service", "requests", "full", "2025-10-16T1200Z">>),
      Name(<<"service", "requests", "full", "2025-10-17T0000Z">>),
      Name(<<"service", "requests", "full", "2025-10-5T0900Z">>),
      Name(<<"service", "requests", "full", "latest">>) }

SummaryNames == {SummaryPath(6924), SummaryPath(6936), SummaryPath(6657)}

\* A summary left by an earlier run.
OldDoc ==
    [l \in WindowLabels |->
        [types |-> ("Legacy" :>
            [total |-> 1, status_counts |-> ("Closed" :> 1),
             avg_response_hours |-> NullAvg])]]

\* Top-level JSON values of every shape, over at most one record.
ShapeSamples ==
    { JList(<<>>),
      JWrapped(<<Rec(Some("Pothole"), Some("Closed"),
                     TS("Z", 6990, 0), TS("Z", 6995, 0))>>),
      JDict(<<>>), JDict(<<"error">>), JStr(<<>>), JStr(<<"x">>),
      JNum, JNull, JInvalid }

\* A data directory: the exports named `names`, the latest-dated ones
\* holding `content`, and earlier summaries at `olds`.
Directory(names, content, olds) ==
    [n \in names \cup olds |->
        IF n \in olds THEN Full(OldDoc)
        ELSE IF n \in LatestFiles([m \in names |-> JInvalid]) THEN content
        ELSE JList(<<>>)]

\* The variables of one run of main() before it starts.
InitRun ==
    /\ pc = "start"
    /\ latest_file = None
    /\ export_ts = None
    /\ records = NoRecords
    /\ now = None
    /\ windows = <<>>
    /\ summary_data = <<>>
    /\ wi = 1
    /\ tmp_path = None
    /\ exc = ""
    /\ pre = [called |-> FALSE, dest |-> None]
    /\ cleanup = ""
    /\ killed_at = ""
    /\ run1 = None
    /\ log = <<>>

\* A single run of main(): no concurrent writers, no export in progress.
InitControl == InitRun /\ writers = <<>> /\ dl = <<>>

\* Every layout of the data directory, over the shape samples.
InitLayouts ==
    /\ InitControl
    /\ \E names \in SUBSET ExportNames, content \in ShapeSamples,
          olds \in SUBSET SummaryNames :
            fs = Directory(names, content, olds)

\* One export holding any record list over the pool.
InitSnapshots(pool) ==
    /\ InitControl
    /\ \E recs \in SeqsUpTo(pool, MaxRecs) :
          fs = Directory({Name(<<"service", "requests", "full",
                                 "2025-10-16T1200Z">>)},
                         JWrapped(recs), {})

Init == InitLayouts \/ InitSnapshots(PoolMain)

InitWin == InitLayouts \/ InitSnapshots(PoolWin)

InitAgg == InitLayouts \/ InitSnapshots(PoolAgg)

------------------------------------------------------------------------------
(* main(): locate, load, select, aggregate *)

Logged(msg) == log' = Append(log, msg)

\* Lines 170-180: find_latest_export_file and its error handler.
Locate ==
    /\ pc = "start"
    /\ IF Glob(fs) = {} \/ DatedFiles(fs) = {}
       THEN /\ pc' = "aborted"
            /\ exc' = "FileNotFoundError"
            /\ log' = log \o <<"Starting summary generation.",
                              "ERROR locating export">>
            /\ UNCHANGED <<latest_file, export_ts>>
       ELSE /\ \E f \in LatestFiles(fs) :
                  /\ latest_file' = Some(f)
                  /\ export_ts' = extract_timestamp_from_filename(f)
            /\ pc' = "load"
            /\ Logged("Starting summary generation.")
            /\ UNCHANGED exc
    /\ UNCHANGED <<fs, records, now, windows, summary_data, wi, tmp_path, pre,
                   cleanup, killed_at, run1, writers, dl>>

\* load_export_readonly: json.load raises on invalid JSON; a dict with
\* "results" is unwrapped; any other value is returned as it is.
load_export_readonly(content) ==
    IF content.json = "invalid"
    THEN [raised |-> "JSONDecodeError", value |-> NoRecords]
    ELSE [raised |-> "", value |-> Unwrap(content)]

\* Lines 182-187.
Load ==
    /\ pc = "load"
    /\ LET r == load_export_readonly(fs[latest_file[1]]) IN
       IF r.raised # ""
       THEN /\ pc' = "aborted"
            /\ exc' = r.raised
            /\ Logged("ERROR loading export")
            /\ UNCHANGED records
       ELSE /\ pc' = "select"
            /\ records' = r.value
            /\ UNCHANGED <<exc, log>>
    /\ UNCHANGED <<fs, latest_file, export_ts, now, windows, summary_data,
                   wi, tmp_path, pre, cleanup, killed_at, run1, writers, dl>>

\* One comprehension of lines 196-201 over the loaded value: iterating a
\* non-iterable raises TypeError, r.get on a dict key or a character
\* raises AttributeError.
Comprehension(v, cutoff) ==
    IF ~Iterable(v) THEN [raised |-> "TypeError", out |-> <<>>]
    ELSE IF v.items = <<>> THEN [raised |-> "", out |-> <<>>]
    ELSE IF ~HasGet(v) THEN [raised |-> "AttributeError", out |-> <<>>]
    ELSE WindowFilter(v.items, cutoff, <<>>)

Cutoff(anchor, i) == DtMinusHours(anchor, WindowSpecs[i].hours)

\* The exception the first failing comprehension raises, "" when all six
\* complete.
SelectRaises(v, anchor) ==
    LET failing == {i \in 2..NumWindows :
                       Comprehension(v, Cutoff(anchor, i)).raised # ""}
        first == CHOOSE i \in failing : \A j \in failing : i <= j
    IN IF failing = {} THEN ""
       ELSE Comprehension(v, Cutoff(anchor, first)).raised

\* The `windows` list of lines 194-202: All-Time is the loaded value
\* itself, each bounded window a comprehension over it.
SelectWindows(v, anchor) ==
    [i \in 1..NumWindows |->
        [label |-> WindowSpecs[i].label,
         subset |-> IF WindowSpecs[i].bounded
                    THEN Comprehension(v, Cutoff(anchor, i)).out
                    ELSE v.items]]

\* Lines 189-202; an exception raised here is not handled by main().
Select ==
    /\ pc = "select"
    /\ \E h \in NowChoices :
          LET anchor == UtcNow(h)
              raised == SelectRaises(records, anchor)
          IN /\ now' = Some(anchor)
             /\ IF raised # ""
                THEN /\ pc' = "crashed"
                     /\ exc' = raised
                     /\ UNCHANGED windows
                ELSE /\ pc' = "aggregate"
                     /\ windows' = SelectWindows(records, anchor)
                     /\ UNCHANGED exc
    /\ UNCHANGED <<fs, latest_file, export_ts, records, summary_data, wi,
                   tmp_path, pre, cleanup, killed_at, run1, writers, dl, log>>

\* One iteration of the loop of lines 205-218; after the last window
\* line 220 has the destination path and the write begins.
Aggregate ==
    /\ pc = "aggregate"
    /\ LET r == summarize_by_type(windows[wi].subset) IN
       IF r.raised # ""
       THEN /\ pc' = "crashed"
            /\ exc' = r.raised
            /\ UNCHANGED <<summary_data, wi, log>>
       ELSE /\ summary_data' =
                 (windows[wi].label :> [types |-> TypesOf(r.agg)]) @@ summary_data
            /\ Logged(windows[wi].label)
            /\ wi' = wi + 1
            /\ pc' = IF wi = NumWindows THEN "write" ELSE "aggregate"
            /\ UNCHANGED exc
    /\ UNCHANGED <<fs, latest_file, export_ts, records, now, windows,
                   tmp_path, pre, cleanup, killed_at, run1, writers, dl>>

------------------------------------------------------------------------------
(* write_json_atomically(summary_data, summary_path) and its caller *)

\* Names mkstemp can draw.
TmpSuffixes == {"k3x9q", "p0w2z"}

dest == SummaryPath(export_ts[1])

doc == summary_data

\* What the writer never touches.
MainUnchanged ==
    UNCHANGED <<latest_file, export_ts, records, now, windows, summary_data, wi,
                killed_at, run1, writers, dl>>

WriterUnchanged == MainUnchanged /\ UNCHANGED cleanup

\* Line 149: os.makedirs(dirname, exist_ok=True).
Makedirs ==
    /\ pc = "write"
    /\ pre' = [called |-> TRUE, dest |-> FileAt(fs, dest)]
    /\ \/ /\ pc' = "w_mkstemp"
          /\ UNCHANGED exc
       \/ /\ pc' = "w_return"
          /\ exc' = "OSError in makedirs"
    /\ UNCHANGED <<fs, tmp_path, log>>
    /\ WriterUnchanged

\* Line 150: mkstemp creates a new, empty file under a name not in use.
Mkstemp ==
    /\ pc = "w_mkstemp"
    /\ \/ \E rnd \in TmpSuffixes :
            /\ TmpName(rnd) \notin DOMAIN fs
            /\ tmp_path' = Some(TmpName(rnd))
            /\ fs' = (TmpName(rnd) :> Prefix(doc)) @@ fs
            /\ pc' = "w_dump"
            /\ UNCHANGED exc
       \/ /\ pc' = "w_return"
          /\ exc' = "OSError in mkstemp"
          /\ UNCHANGED <<fs, tmp_path>>
    /\ UNCHANGED <<pre, log>>
    /\ WriterUnchanged

\* A step inside the try block raises: control goes to the finally clause
\* with the exception pending (exc names the exception and the failing call).
Raised(e) ==
    /\ pc' = "w_finally"
    /\ exc' = e
    /\ UNCHANGED <<fs, tmp_path, pre, log>>
    /\ WriterUnchanged

\* Line 153: json.dump into the buffered file; part of the text may reach
\* the file, the rest waits in the buffer.
Dump ==
    /\ pc = "w_dump"
    /\ pc' = "w_flush"
    /\ fs' = [fs EXCEPT ![tmp_path[1]] = Prefix(doc)]
    /\ UNCHANGED <<tmp_path, exc, pre, log>>
    /\ WriterUnchanged

DumpFails ==
    /\ pc = "w_dump"
    /\ Raised("OSError in json.dump")

\* Line 154: tmp.flush() hands the whole text to the file.
Flush ==
    /\ pc = "w_flush"
    /\ pc' = "w_fsync"
    /\ fs' = [fs EXCEPT ![tmp_path[1]] = Full(doc)]
    /\ UNCHANGED <<tmp_path, exc, pre, log>>
    /\ WriterUnchanged

FlushFails ==
    /\ pc = "w_flush"
    /\ Raised("OSError in flush")

\* Line 155: os.fsync, then the with block closes the file.
Fsync ==
    /\ pc = "w_fsync"
    /\ pc' = "w_replace"
    /\ UNCHANGED <<fs, tmp_path, exc, pre, log>>
    /\ WriterUnchanged

FsyncFails ==
    /\ pc = "w_fsync"
    /\ Raised("OSError in fsync")

\* Line 156: os.replace(tmp_path, dest_path).
ReplaceStep ==
    /\ pc = "w_replace"
    /\ pc' = "w_finally"
    /\ fs' = Replace(fs, tmp_path[1], dest)
    /\ UNCHANGED <<tmp_path, exc, pre, log>>
    /\ WriterUnchanged

ReplaceFails ==
    /\ pc = "w_replace"
    /\ Raised("OSError in os.replace")

\* A finally clause that leaves the file where it is.
RemoveForgotten(files, name) == files

\* os.remove(tmp_path) of line 160, when it succeeds.
Remove(files, name) == Without(files, name)

\* Lines 157-162: the finally clause. The file is removed when it still
\* exists; a failure of os.remove is swallowed and leaves the file.
\* cleanup records which of the three ways the clause went.
Finally ==
    /\ pc = "w_finally"
    /\ pc' = "w_return"
    /\ IF tmp_path[1] \in DOMAIN fs
       THEN \/ /\ fs' = Remove(fs, tmp_path[1])
               /\ cleanup' = "removed"
            \/ /\ fs' = fs
               /\ cleanup' = "remove_failed"
       ELSE /\ fs' = fs
            /\ cleanup' = "nothing_to_remove"
    /\ UNCHANGED <<tmp_path, exc, pre, log>>
    /\ MainUnchanged

\* Lines 222-229: main() logs the outcome of the write; the exception, if
\* any, was propagated to its handler.
Return ==
    /\ pc = "w_return"
    /\ pc' = "done"
    /\ Logged(IF exc = "" THEN "SUCCESS" ELSE "ERROR writing summary")
    /\ UNCHANGED <<fs, tmp_path, exc, pre>>
    /\ WriterUnchanged

Running == pc \notin {"done", "aborted", "crashed", "killed"}

\* The process is killed (SIGKILL): no handler and no finally clause runs.
\* killed_at keeps the position the run had reached.
Kill ==
    /\ Running
    /\ pc' = "killed"
    /\ killed_at' = pc
    /\ UNCHANGED <<run1, writers, dl>>
    /\ UNCHANGED <<fs, latest_file, export_ts, records, now, windows,
                   summary_data, wi, tmp_path, exc, pre, cleanup, log>>

Next ==
    \/ Locate \/ Load \/ Select \/ Aggregate
    \/ Makedirs \/ Mkstemp \/ Dump \/ DumpFails \/ Flush \/ FlushFails
    \/ Fsync \/ FsyncFails \/ ReplaceStep \/ ReplaceFails
    \/ Finally \/ Return \/ Kill

Spec == Init /\ [][Next]_vars

SpecWin == InitWin /\ [][Next]_vars

SpecAgg == InitAgg /\ [][Next]_vars

------------------------------------------------------------------------------
(* Durable Writer: claims C1, C2 *)

\* The write call has exited by raising.
CallFailed == pc \in {"w_return", "done"} /\ exc # ""

\* Positions inside write_json_atomically, line 150 onwards.
InCall == {"w_mkstemp", "w_dump", "w_flush", "w_fsync", "w_replace", "w_finally"}

\* The run was killed at a step of the write call.
KilledInCall == pc = "killed" /\ killed_at \in InCall

\* C1 as stated: after a failed call, or a kill at any step of the call,
\* the destination is absent or holds its pre-call content.
C1_DestinationAlwaysPrior ==
    (CallFailed \/ KilledInCall) => FileAt(fs, dest) = pre.dest

\* C1, amended: from the moment the call begins the destination holds its
\* pre-call state (absent or prior content) or, once the rename has been
\* done with no exception raised, the complete new document - never a
\* prefix; a call that raises leaves the pre-call state.
C1_DestinationNeverPartial ==
    pre.called =>
        /\ \/ FileAt(fs, dest) = pre.dest
           \/ /\ FileAt(fs, dest) = Some(Full(doc))
              /\ exc = ""
              /\ tmp_path # None
              /\ tmp_path[1] \notin DOMAIN fs
        /\ CallFailed => FileAt(fs, dest) = pre.dest

\* A kill while the temporary file holds a prefix of the new document and
\* an earlier summary sits at the destination.
C1_Witness ==
    /\ KilledInCall
    /\ tmp_path # None
    /\ FileAt(fs, tmp_path[1]) = Some(Prefix(doc))
    /\ FileAt(fs, dest) = Some(Full(OldDoc))

\* The call has exited after creating its temporary file.
CallExited == pc \in {"w_return", "done"} /\ tmp_path # None

------------------------------------------------------------------------------
(* Window Selector: claims C3, C4 *)

\* What a timestamp string means, read off its text: it is usable when it
\* is present and well-formed, and then denotes the UTC instant
\* wall - offset (no offset for "Z" and for a naive string taken as UTC).
Usable(s) == s # None /\ s[1].form \in {"Z", "offset", "naive"}

InstantOf(s) == s[1].wall - (IF s[1].form = "offset" THEN s[1].off ELSE 0)

Selected == windows # <<>>

\* The record is created no earlier than `hours` before the anchor.
Meets(r, hours) ==
    Usable(r.createddate) /\ InstantOf(r.createddate) >= now[1].wall - hours

\* C3: once the windows are selected, each bounded window is the record
\* sequence restricted, in order, to the records whose created timestamp is
\* present, parseable and >= now - duration; All-Time is the whole sequence.
C3_WindowContents ==
    Selected =>
        \A i \in 1..NumWindows :
            /\ windows[i].label = WindowSpecs[i].label
            /\ windows[i].subset =
                  IF WindowSpecs[i].bounded
                  THEN SelectSeq(records.items,
                                 LAMBDA r : Meets(r, WindowSpecs[i].hours))
                  ELSE records.items

\* Three records: one with an unparsable created timestamp (All-Time
\* only), one exactly 90 days old and one exactly 4 hours old.
C3_Witness ==
    /\ Selected
    /\ Len(windows[1].subset) = 3
    /\ Len(windows[2].subset) = 2
    /\ Len(windows[7].subset) = 1
    /\ \E k \in 1..3 : records.items[k].createddate = TS("bad", 0, 0)
    /\ \E k \in 1..3 : records.items[k].createddate = TS("Z", 7000 - 90 * 24, 0)
    /\ windows[7].subset[1].createddate = TS("Z", 7000 - 4, 0)

\* a is b with some elements left out, order kept.
RECURSIVE IsSubsequence(_, _)
IsSubsequence(a, b) ==
    IF a = <<>> THEN TRUE
    ELSE IF b = <<>> THEN FALSE
    ELSE IF Head(a) = Head(b) THEN IsSubsequence(Tail(a), Tail(b))
    ELSE IsSubsequence(a, Tail(b))

\* C4: the lineup is ordered from the longest window to the shortest, and
\* every record selected into a window is selected into each longer one.
C4_WindowMonotonicity ==
    Selected =>
        \A i \in 1..NumWindows : \A j \in i..NumWindows :
            IsSubsequence(windows[j].subset, windows[i].subset)

\* Three nested windows that differ: 4 h inside 30 d inside 90 d.
C4_Witness ==
    /\ Selected
    /\ Len(windows[7].subset) = 1
    /\ Len(windows[4].subset) = 2
    /\ Len(windows[2].subset) = 3

------------------------------------------------------------------------------
(* Type Aggregator: claims C5, C6 *)

RECURSIVE SumOver(_, _)
SumOver(f, S) ==
    IF S = {} THEN 0
    ELSE LET x == CHOOSE y \in S : TRUE IN f[x] + SumOver(f, S \ {x})

\* The window at position i has been aggregated into the summary.
Aggregated(i) == Selected /\ windows[i].label \in DOMAIN summary_data

Types(i) == summary_data[windows[i].label].types

\* C5: for every aggregated window the totals of its types add up to the
\* number of records in the window's subset.
C5_TotalConservation ==
    \A i \in 1..NumWindows :
        Aggregated(i) =>
            SumOver([t \in DOMAIN Types(i) |-> Types(i)[t].total],
                    DOMAIN Types(i))
              = Len(windows[i].subset)

\* All seven windows aggregated; All-Time holds three records of two types.
C5_Witness ==
    /\ pc = "write"
    /\ Len(windows[1].subset) = 3
    /\ Cardinality(DOMAIN Types(1)) = 2
    /\ \E t \in DOMAIN Types(1) : Types(1)[t].total = 2
    /\ Len(windows[7].subset) = 0

\* The type a record is reported under.
TypeKey(r) == IF r.type = None \/ r.type = Some("") THEN "Unknown" ELSE r.type[1]

\* Positions in a subset of the records of type t that have both
\* timestamps usable and closed strictly after created.
Qualifying(subset, t) ==
    {k \in 1..Len(subset) :
        /\ TypeKey(subset[k]) = t
        /\ Usable(subset[k].createddate)
        /\ Usable(subset[k].closeddate)
        /\ InstantOf(subset[k].closeddate) > InstantOf(subset[k].createddate)}

DeltaHours(r) == InstantOf(r.closeddate) - InstantOf(r.createddate)

\* C6: for every aggregated (window, type), avg_response_hours is null
\* when no record of that type qualifies, and otherwise the mean of the
\* deltas of exactly the qualifying records of that type (as a fraction
\* in lowest terms, so it is a positive number that is never 0).
C6_AverageResponse ==
    \A i \in 1..NumWindows :
        Aggregated(i) =>
            \A t \in DOMAIN Types(i) :
                LET Q == Qualifying(windows[i].subset, t)
                    avg == Types(i)[t].avg_response_hours
                IN IF Q = {} THEN avg = NullAvg
                   ELSE /\ ~avg.null
                        /\ avg.num > 0 /\ avg.den > 0
                        /\ Gcd(avg.num, avg.den) = 1
                        /\ avg.num * Cardinality(Q) =
                             avg.den * SumOver([k \in Q |->
                                                  DeltaHours(windows[i].subset[k])], Q)

\* Pothole with deltas 2 h and 4 h and a third record closed at the
\* instant it was created: the average is 3; Graffiti would be null.
C6_Witness ==
    /\ pc = "write"
    /\ "Pothole" \in DOMAIN Types(1)
    /\ Types(1)["Pothole"].total = 3
    /\ Types(1)["Pothole"].avg_response_hours = [null |-> FALSE, num |-> 3, den |-> 1]
    /\ \E k \in 1..3 : windows[1].subset[k].closeddate = windows[1].subset[k].createddate

------------------------------------------------------------------------------
(* Error handling: claims C7 - C10 *)

\* The export the run located holds a JSON value that is neither an object
\* with "results" nor a list.
BadShapeLoaded ==
    /\ latest_file # None
    /\ latest_file[1] \in DOMAIN fs
    /\ fs[latest_file[1]].json \in {"dict", "str", "int", "null"}

\* C7: a run over a snapshot of neither accepted shape is stopped at the
\* load: it never begins the summary write.
C7_BadShapeWritesNothing == BadShapeLoaded => ~pre.called

\* C8: over any record list the run ends at the summary write with all
\* seven windows aggregated; no timestamp of a record makes it crash.
C8_TimestampProblemsAbsorbed ==
    (records.py = "list" /\ pc \in {"crashed", "done"}) =>
        /\ pc = "done"
        /\ DOMAIN summary_data = WindowLabels

IsNaive(s) == s # None /\ s[1].form = "naive"

\* C9: once the anchor is taken, a record list holding naive timestamps is
\* selected like any other - each record with a naive created timestamp is
\* in every bounded window whose lower bound its UTC reading meets - and
\* the run does not crash.
C9_NaiveTimestampAccepted ==
    (now # None /\ records.py = "list"
       /\ \E k \in 1..Len(records.items) :
             IsNaive(records.items[k].createddate)
               \/ IsNaive(records.items[k].closeddate)) =>
        /\ pc # "crashed"
        /\ Selected
        /\ \A k \in 1..Len(records.items) : \A i \in 2..NumWindows :
              (IsNaive(records.items[k].createddate)
                 /\ Meets(records.items[k], WindowSpecs[i].hours)) =>
                  \E m \in 1..Len(windows[i].subset) :
                      windows[i].subset[m] = records.items[k]

\* The texts of the format YYYY-MM-DDTHHMMZ among the names in use.
TimestampTexts ==
    {"2025-10-16T1200Z", "2025-10-17T0000Z", "2025-10-5T0900Z", "2025-10-05T0900Z"}

\* No file service_requests_full_*.json has a timestamp as its last part.
NoValidSnapshot ==
    \A n \in DOMAIN fs :
        (n.ext = "json" /\ Len(n.parts) >= 4
           /\ SubSeq(n.parts, 1, 3) = <<"service", "requests", "full">>)
          => n.parts[Len(n.parts)] \notin TimestampTexts

\* C10: while the data directory holds no export with a parseable
\* timestamp in its name, the run is at its start, and its only steps end
\* it (handled error or kill) and leave every file as it is.
C10_NoSnapshotNothingWritten ==
    [][NoValidSnapshot =>
          /\ pc = "start"
          /\ fs' = fs
          /\ pc' \in {"aborted", "killed"}
          /\ tmp_path' = None
          /\ ~pre'.called]_vars

\* The run gave up on a directory whose only export has no timestamp in
\* its name, next to a summary of an earlier run.
C10_Witness ==
    /\ pc = "aborted"
    /\ exc = "FileNotFoundError"
    /\ NoValidSnapshot
    /\ \E n \in DOMAIN fs : n.parts[Len(n.parts)] = "latest"
    /\ \E n \in DOMAIN fs : IsSummaryName(n) /\ fs[n] = Full(OldDoc)

------------------------------------------------------------------------------
(* Snapshot selection and output naming: claim C11 *)

\* The instant a timestamp text denotes, in hours since 2025-01-01T00:00Z.
TimestampValue(text) ==
    CASE text = "2025-10-16T1200Z" -> 6924
      [] text = "2025-10-17T0000Z" -> 6936
      [] text = "2025-10-5T0900Z"  -> 6657
      [] text = "2025-10-05T0900Z" -> 6657

\* The exports in the directory whose name ends in a timestamp.
TimestampedExports ==
    {n \in DOMAIN fs :
        /\ Len(n.parts) >= 4
        /\ SubSeq(n.parts, 1, 3) = <<"service", "requests", "full">>
        /\ n.parts[Len(n.parts)] \in TimestampTexts}

StampOf(n) == TimestampValue(n.parts[Len(n.parts)])

\* Files named summary_stats_<something>.json.
SummaryFiles(files) ==
    {n \in DOMAIN files :
        Len(n.parts) = 3 /\ n.parts[1] = "summary" /\ n.parts[2] = "stats"}

\* The snapshot the run works on is a timestamped export of greatest
\* timestamp, what was loaded is that file's record list, and the summary
\* path carries that timestamp.
C11_LatestChosen ==
    latest_file # None =>
        /\ latest_file[1] \in TimestampedExports
        /\ \A n \in TimestampedExports : StampOf(n) <= StampOf(latest_file[1])
        /\ export_ts = Some(StampOf(latest_file[1]))
        /\ pc \in {"select", "aggregate", "write"} =>
              records.items = fs[latest_file[1]].items
        /\ pre.called =>
              /\ dest.parts[3] \in TimestampTexts
              /\ TimestampValue(dest.parts[3]) = StampOf(latest_file[1])

\* A step that creates, replaces or deletes a summary file touches only
\* the one named after the chosen snapshot's timestamp.
C11_OnlyOwnSummary ==
    \A n \in SummaryFiles(fs) \cup SummaryFiles(fs') :
        FileAt(fs', n) # FileAt(fs, n) =>
            /\ latest_file # None
            /\ n.parts[3] \in TimestampTexts
            /\ TimestampValue(n.parts[3]) = StampOf(latest_file[1])
            /\ FileAt(fs', n) = Some(Full(summary_data))

\* C11: a run reads the export of greatest filename timestamp among those
\* with a parseable timestamp and writes only summary_stats_<T>.json for
\* that same timestamp T.
C11_LatestSnapshotNamesSummary ==
    []C11_LatestChosen /\ [][C11_OnlyOwnSummary]_vars

\* The run wrote summary_stats_2025-10-17T0000Z.json from the newest of
\* three exports, one of them without a timestamp in its name, while the
\* summary of the older export stayed as it was.
C11_Witness ==
    /\ pc = "done" /\ exc = ""
    /\ latest_file = Some(Name(<<"service", "requests", "full", "2025-10-17T0000Z">>))
    /\ Name(<<"service", "requests", "full", "2025-10-16T1200Z">>) \in DOMAIN fs
    /\ Name(<<"service", "requests", "full", "latest">>) \in DOMAIN fs
    /\ FileAt(fs, Name(<<"summary", "stats", "2025-10-17T0000Z">>))
          = Some(Full(summary_data))
    /\ FileAt(fs, Name(<<"summary", "stats", "2025-10-16T1200Z">>))
          = Some(Full(OldDoc))

------------------------------------------------------------------------------
(* A second run over the same data directory: claim C12 *)

\* Records for the runs that are repeated.
PoolRerun ==
    {Rec(t, Some("Closed"), TS("Z", 6990, 0), cl) :
        t \in {None, Some("Pothole")},
        cl \in {None, TS("Z", 6995, 0)}}

InitRerun == InitLayouts \/ InitSnapshots(PoolRerun)

\* The script is started again after a run that went through its write
\* call (lines 232-233): a new process, the same data directory. run1
\* keeps what the first run selected, built and aimed at.
Rerun ==
    /\ pc = "done"
    /\ run1 = None
    /\ run1' = Some([now |-> now, windows |-> windows, doc |-> summary_data,
                     path |-> dest, exc |-> exc])
    /\ pc' = "start"
    /\ latest_file' = None
    /\ export_ts' = None
    /\ records' = NoRecords
    /\ now' = None
    /\ windows' = <<>>
    /\ summary_data' = <<>>
    /\ wi' = 1
    /\ tmp_path' = None
    /\ exc' = ""
    /\ pre' = [called |-> FALSE, dest |-> None]
    /\ cleanup' = ""
    /\ UNCHANGED <<fs, killed_at, writers, dl, log>>

NextRerun ==
    \/ Locate \/ Load \/ Select \/ Aggregate
    \/ Makedirs \/ Mkstemp \/ Dump \/ DumpFails \/ Flush \/ FlushFails
    \/ Fsync \/ FsyncFails \/ ReplaceStep \/ ReplaceFails
    \/ Finally \/ Return \/ Kill \/ Rerun

SpecRerun == InitRerun /\ [][NextRerun]_vars

------------------------------------------------------------------------------
(* Concurrent calls of write_json_atomically on one destination: claim C13 *)

\* Number of concurrent runs.
NumWriters == 2

Writers == 1..NumWriters

\* Names mkstemp can draw while several runs are writing.
ConcSuffixes == {"k3x9q", "p0w2z", "m5t1v"}

\* A temporary file an earlier, killed run left behind.
StaleTmp == TmpName("q8r4s")

\* The destination the runs share.
ConcDest == SummaryPath(6924)

\* The document run w has built: the runs differ in what they counted.
DocOfWriter(w) ==
    [l \in WindowLabels |->
        [types |-> ("Pothole" :>
            [total |-> w, status_counts |-> ("Closed" :> w),
             avg_response_hours |-> NullAvg])]]

\* mkstemp opens with O_EXCL: a name is drawn again while it is in use.
NameInUse(files, name) == name \in DOMAIN files

\* The file at `name` is the one created with document d: documents differ
\* from run to run, so the document tells whose file it is.
IsFileOf(files, name, d) ==
    /\ name \in DOMAIN files
    /\ files[name].kind = "summary"
    /\ files[name].doc = d

\* A write through the descriptor mkstemp returned: it reaches the file the
\* run created, which the path names unless that file was removed since.
WriteTo(files, name, content) ==
    IF IsFileOf(files, name, content.doc)
    THEN [files EXCEPT ![name] = content]
    ELSE files

\* Each run is about to call write_json_atomically; the destination is
\* absent or holds an older summary; a stale temporary file may lie around.
InitConc ==
    /\ InitRun
    /\ dl = <<>>
    /\ \E olds \in SUBSET {ConcDest}, stale \in SUBSET {StaleTmp} :
          /\ fs = [n \in olds \cup stale |->
                      IF n \in olds THEN Full(OldDoc) ELSE Prefix(OldDoc)]
          /\ writers = [procs |-> [w \in Writers |->
                                     [pc |-> "write", tmp |-> None, exc |-> "",
                                      at |-> ""]],
                        prior |-> FileAt(fs, ConcDest),
                        last |-> 0]

RunUnchanged ==
    UNCHANGED <<pc, latest_file, export_ts, records, now, windows, summary_data,
                wi, tmp_path, exc, pre, cleanup, killed_at, run1, dl, log>>

Proc(w) == writers.procs[w]

\* Run w moves on: its record changes as given; `renamed` tells whether
\* the step was its rename.
Moves(w, p, renamed) ==
    /\ writers' = [writers EXCEPT !.procs[w] = p,
                                  !.last = IF renamed THEN w ELSE @]
    /\ RunUnchanged

\* Line 149.
CMakedirs(w) ==
    /\ Proc(w).pc = "write"
    /\ \/ Moves(w, [Proc(w) EXCEPT !.pc = "w_mkstemp"], FALSE)
       \/ Moves(w, [Proc(w) EXCEPT !.pc = "exited",
                                   !.exc = "OSError in makedirs"], FALSE)
    /\ UNCHANGED fs

\* Line 150.
CMkstemp(w) ==
    /\ Proc(w).pc = "w_mkstemp"
    /\ \/ \E rnd \in ConcSuffixes :
            /\ ~NameInUse(fs, TmpName(rnd))
            /\ fs' = (TmpName(rnd) :> Prefix(DocOfWriter(w))) @@ fs
            /\ Moves(w, [Proc(w) EXCEPT !.pc = "w_dump",
                                        !.tmp = Some(TmpName(rnd))], FALSE)
       \/ /\ Moves(w, [Proc(w) EXCEPT !.pc = "exited",
                                      !.exc = "OSError in mkstemp"], FALSE)
          /\ UNCHANGED fs

\* A step of run w inside the try block raises.
CRaised(w, e) ==
    /\ Moves(w, [Proc(w) EXCEPT !.pc = "w_finally", !.exc = e], FALSE)
    /\ UNCHANGED fs

\* Line 153.
CDump(w) ==
    /\ Proc(w).pc = "w_dump"
    /\ fs' = WriteTo(fs, Proc(w).tmp[1], Prefix(DocOfWriter(w)))
    /\ Moves(w, [Proc(w) EXCEPT !.pc = "w_flush"], FALSE)

CDumpFails(w) ==
    /\ Proc(w).pc = "w_dump"
    /\ CRaised(w, "OSError in json.dump")

\* Line 154.
CFlush(w) ==
    /\ Proc(w).pc = "w_flush"
    /\ fs' = WriteTo(fs, Proc(w).tmp[1], Full(DocOfWriter(w)))
    /\ Moves(w, [Proc(w) EXCEPT !.pc = "w_fsync"], FALSE)

CFlushFails(w) ==
    /\ Proc(w).pc = "w_flush"
    /\ CRaised(w, "OSError in flush")

\* Line 155.
CFsync(w) ==
    /\ Proc(w).pc = "w_fsync"
    /\ Moves(w, [Proc(w) EXCEPT !.pc = "w_replace"], FALSE)
    /\ UNCHANGED fs

CFsyncFails(w) ==
    /\ Proc(w).pc = "w_fsync"
    /\ CRaised(w, "OSError in fsync")

\* Line 156: the rename needs its source; without it os.replace raises.
CReplace(w) ==
    /\ Proc(w).pc = "w_replace"
    /\ Proc(w).tmp[1] \in DOMAIN fs
    /\ fs' = Replace(fs, Proc(w).tmp[1], ConcDest)
    /\ Moves(w, [Proc(w) EXCEPT !.pc = "w_finally"], TRUE)

CReplaceFails(w) ==
    /\ Proc(w).pc = "w_replace"
    /\ CRaised(w, "OSError in os.replace")

\* Lines 157-162, then the call returns or raises to its caller.
CFinally(w) ==
    /\ Proc(w).pc = "w_finally"
    /\ IF Proc(w).tmp[1] \in DOMAIN fs
       THEN /\ fs' \in {Remove(fs, Proc(w).tmp[1]), fs}
            /\ Moves(w, [Proc(w) EXCEPT !.pc = "exited"], FALSE)
       ELSE /\ fs' = fs
            /\ Moves(w, [Proc(w) EXCEPT !.pc = "exited"], FALSE)

\* Run w is killed.
CKill(w) ==
    /\ Proc(w).pc \notin {"exited", "killed"}
    /\ Moves(w, [Proc(w) EXCEPT !.pc = "killed", !.at = Proc(w).pc], FALSE)
    /\ UNCHANGED fs

NextConc ==
    \E w \in Writers :
        \/ CMakedirs(w) \/ CMkstemp(w) \/ CDump(w) \/ CDumpFails(w)
        \/ CFlush(w) \/ CFlushFails(w) \/ CFsync(w) \/ CFsyncFails(w)
        \/ CReplace(w) \/ CReplaceFails(w) \/ CFinally(w) \/ CKill(w)

SpecConc == InitConc /\ [][NextConc]_vars

\* The destination is absent or as it was until a run renames, and from
\* then on it is the complete document of the run that renamed last.
C13_DestIsOneRunsDocument ==
    FileAt(fs, ConcDest) =
        IF writers.last = 0 THEN writers.prior
        ELSE Some(Full(DocOfWriter(writers.last)))

\* Run v has a temporary file of its own at the path mkstemp gave it.
Holds(v) ==
    /\ Proc(v).tmp # None
    /\ IsFileOf(fs, Proc(v).tmp[1], DocOfWriter(v))

\* A step leaves alone the temporary file of every run that did not take
\* it, and the stale file of an earlier run.
C13_TempFilesPrivate ==
    /\ \A v \in Writers :
          (writers'.procs[v] = writers.procs[v] /\ Holds(v)) =>
              FileAt(fs', Proc(v).tmp[1]) = FileAt(fs, Proc(v).tmp[1])
    /\ FileAt(fs', StaleTmp) = FileAt(fs, StaleTmp)

\* C13: under every interleaving the destination is absent, its prior
\* content or the complete document of exactly one run - the one that
\* renamed last, also once all runs have finished - and no run removes or
\* overwrites another run's temporary file.
C13_LastRenameWins ==
    []C13_DestIsOneRunsDocument /\ [][C13_TempFilesPrivate]_vars

------------------------------------------------------------------------------
(* One write per run, after the seven windows: claim C14 *)

SevenLabels ==
    {"All-Time", "Last 90 Days", "Last 60 Days", "Last 30 Days",
     "Last 7 Days", "Last 1 Days", "Last 4 Hours"}

\* Positions of main inside the call of write_json_atomically, up to and
\* including the rename.
BeforeRenameDone == {"write", "w_mkstemp", "w_dump", "w_flush", "w_fsync", "w_replace"}

\* Positions after the rename was attempted or the write was given up.
AfterWrite == {"w_finally", "w_return", "done"}

\* Some file other than a temporary file differs across the step.
NonTempChanged ==
    \E n \in DOMAIN fs \cup DOMAIN fs' :
        ~IsTmpName(n) /\ FileAt(fs', n) # FileAt(fs, n)

\* A step that changes a file other than a temporary one is the rename of
\* line 156, taken with all seven windows in the document, and it puts the
\* complete document at the destination.
C14_ReplaceAfterSevenWindows ==
    NonTempChanged =>
        /\ pc = "w_replace"
        /\ pc' = "w_finally"
        /\ DOMAIN summary_data = SevenLabels
        /\ wi = 8
        /\ \A n \in DOMAIN fs \cup DOMAIN fs' :
              (~IsTmpName(n) /\ FileAt(fs', n) # FileAt(fs, n)) => n = dest
        /\ FileAt(fs', dest) = Some(Full(summary_data))

\* Once the rename was attempted or the write failed, the run never goes
\* back into the writer: the rename position is left for good.
C14_NoRetry ==
    /\ pc \in AfterWrite \cup {"aborted", "crashed", "killed"} =>
          pc' \notin BeforeRenameDone
    /\ pc = "w_replace" => pc' \in {"w_replace", "w_finally", "killed"}
    /\ (pc \in BeforeRenameDone /\ exc' # "") => pc' \notin BeforeRenameDone

\* A run that ends without error leaves the seven-window document.
C14_SuccessHoldsSevenWindows ==
    (pc = "done" /\ exc = "") =>
        /\ DOMAIN summary_data = SevenLabels
        /\ FileAt(fs, dest) = Some(Full(summary_data))

\* C14: in a run of main the destination is replaced at most once and
\* only after all seven windows are in the document; a failed write is not
\* retried; on success the destination holds the complete seven-window
\* document.
C14_WrittenOnceAfterSevenWindows ==
    /\ []C14_SuccessHoldsSevenWindows
    /\ [][C14_ReplaceAfterSevenWindows /\ C14_NoRetry]_vars

\* A run over a snapshot with records wrote its summary and returned
\* without error.
C14_Witness ==
    /\ pc = "done" /\ exc = ""
    /\ pre.called
    /\ Len(records.items) >= 2
    /\ FileAt(fs, dest) = Some(Full(summary_data))
    /\ summary_data["All-Time"].types # <<>>

------------------------------------------------------------------------------
(* Type and status labels: claim C15 *)

\* Records whose type and status are missing, empty or given; two status
\* labels that differ in case only.
PoolStatus ==
    {Rec(t, st, TS("Z", 6990, 0), None) :
        t \in {None, Some(""), Some("Pothole")},
        st \in {None, Some(""), Some("Closed")}}
    \cup {Rec(Some("Pothole"), Some("closed"), TS("Z", 6990, 0), None)}

InitStatus == InitLayouts \/ InitSnapshots(PoolStatus)

SpecStatus == InitStatus /\ [][Next]_vars

\* The label of a value: "Unknown" when the record has none, else the
\* string it carries.
LabelIfAbsent(f) == IF f = None THEN "Unknown" ELSE f[1]

\* The label of a value: "Unknown" when the record has none or carries the
\* empty string, else the string it carries.
LabelIfAbsentOrEmpty(f) == IF f = None \/ f = <<"">> THEN "Unknown" ELSE f[1]

\* Every aggregated window has exactly the types L gives its records, and
\* under each type exactly the statuses L gives them, each counted once per
\* record.
CountedUnder(L(_)) ==
    \A i \in 1..NumWindows :
        Aggregated(i) =>
            LET sub == windows[i].subset
                idx == 1..Len(sub)
            IN /\ DOMAIN Types(i) = {L(sub[k].type) : k \in idx}
               /\ \A t \in DOMAIN Types(i) :
                     LET of_t == {k \in idx : L(sub[k].type) = t} IN
                     /\ DOMAIN Types(i)[t].status_counts
                           = {L(sub[k].status) : k \in of_t}
                     /\ \A st \in DOMAIN Types(i)[t].status_counts :
                           Types(i)[t].status_counts[st]
                             = Cardinality({k \in of_t : L(sub[k].status) = st})

\* C15: a record with an absent type (status) is counted under "Unknown";
\* every other record is counted under exactly the raw type and status
\* strings it carries, with no normalization or merging.
C15_RawUnlessAbsent == CountedUnder(LabelIfAbsent)

\* C15 as the code has it: an absent, null or empty type (status) is
\* counted under "Unknown"; every other record under exactly its raw
\* strings.
C15_RawUnlessAbsentOrEmpty == CountedUnder(LabelIfAbsentOrEmpty)

\* A finished run over a snapshot with an empty-string type and with the
\* statuses "Closed" and "closed" under one type.
C15_Witness ==
    /\ pc = "done" /\ exc = ""
    /\ \E k \in 1..Len(records.items) : records.items[k].type = <<"">>
    /\ "Unknown" \in DOMAIN summary_data["All-Time"].types
    /\ "Pothole" \in DOMAIN summary_data["All-Time"].types
    /\ {"Closed", "closed"}
          \subseteq DOMAIN summary_data["All-Time"].types["Pothole"].status_counts

------------------------------------------------------------------------------
(* download_full_export_json of full_exporter.py: claim C16 *)

\* Largest max_retries a call is given; the default is 3.
MaxRetriesBound == 3

RecordCounts == {0, 2}

\* A range with one value too many.
HasNextInclusive(attempt, max_retries) == attempt <= max_retries

\* range(1, max_retries + 1) has a value after `attempt`.
HasNext(attempt, max_retries) == attempt + 1 <= max_retries

\* The call has just been entered with some max_retries; no raw file, no
\* compressed file.
InitExport ==
    /\ InitRun
    /\ fs = <<>>
    /\ writers = <<>>
    /\ \E m \in 0..MaxRetriesBound :
          dl = [pc |-> "for", max_retries |-> m, attempt |-> 0,
                outcomes |-> <<>>, raw |-> "absent", gz |-> "absent",
                validated |-> FALSE, compressed |-> FALSE,
                result |-> None, raised |-> "", log |-> <<>>]

ExportUnchanged ==
    UNCHANGED <<fs, pc, latest_file, export_ts, records, now, windows,
                summary_data, wi, tmp_path, exc, pre, cleanup, killed_at, run1,
                writers, log>>

\* Line 62: the next attempt, or the else branch of lines 92-95.
ForLoop ==
    /\ dl.pc = "for"
    /\ IF HasNext(dl.attempt, dl.max_retries)
       THEN dl' = [dl EXCEPT !.pc = "get", !.attempt = @ + 1]
       ELSE dl' = [dl EXCEPT !.pc = "returned",
                             !.result = Some(<<"None", 0>>),
                             !.log = Append(@, "All retries failed.")]
    /\ ExportUnchanged

\* The attempt of lines 63-82 fails with the exception of kind k.
AttemptFails(k) ==
    dl' = [dl EXCEPT !.pc = "sleep",
                     !.outcomes = Append(@, k),
                     !.log = Append(@, k)]

\* Lines 65-66: the request is made; it connects, or times out, or fails
\* (raise_for_status included).
Get ==
    /\ dl.pc = "get"
    /\ \/ dl' = [dl EXCEPT !.pc = "open"]
       \/ AttemptFails("Timeout")
       \/ AttemptFails("RequestException")
    /\ ExportUnchanged

\* Line 72: the raw file is opened for writing, which empties it; an
\* OSError is not caught.
OpenRaw ==
    /\ dl.pc = "open"
    /\ \/ dl' = [dl EXCEPT !.pc = "chunks", !.raw = "partial"]
       \/ dl' = [dl EXCEPT !.pc = "raised", !.raised = "OSError",
                           !.outcomes = Append(@, "OSError")]
    /\ ExportUnchanged

\* Lines 73-82: the body is streamed to the end and the loop is left, or
\* the stream times out or breaks, or a write raises OSError.
Chunks ==
    /\ dl.pc = "chunks"
    /\ \/ \E body \in {"json", "not json"} :
             dl' = [dl EXCEPT !.pc = "validate", !.raw = body,
                              !.outcomes = Append(@, "ok")]
       \/ AttemptFails("Timeout")
       \/ AttemptFails("RequestException")
       \/ dl' = [dl EXCEPT !.pc = "raised", !.raised = "OSError",
                           !.outcomes = Append(@, "OSError")]
    /\ ExportUnchanged

\* Lines 87 and 91.
Sleep ==
    /\ dl.pc = "sleep"
    /\ dl' = [dl EXCEPT !.pc = "for"]
    /\ ExportUnchanged

\* Lines 98-112.
Validate ==
    /\ dl.pc = "validate"
    /\ IF dl.raw = "json"
       THEN \E count \in RecordCounts :
               dl' = [dl EXCEPT !.pc = "compress", !.validated = TRUE,
                                !.result = Some(<<"raw", count>>)]
       ELSE dl' = [dl EXCEPT !.pc = "returned", !.validated = TRUE,
                             !.result = Some(<<"raw", 0>>),
                             !.log = Append(@, "ERROR: Response not valid JSON.")]
    /\ ExportUnchanged

\* Lines 116-142.
Compress ==
    /\ dl.pc = "compress"
    /\ \/ dl' = [dl EXCEPT !.pc = "returned", !.compressed = TRUE,
                           !.gz = "complete", !.raw = "absent",
                           !.result = Some(<<"gz", dl.result[1][2]>>),
                           !.log = Append(@, "Export complete.")]
       \/ \E left \in {"absent", "partial", "complete"} :
             dl' = [dl EXCEPT !.pc = "returned", !.gz = left,
                              !.log = Append(@, "ERROR during compression")]
    /\ ExportUnchanged

NextExport ==
    \/ ForLoop \/ Get \/ OpenRaw \/ Chunks \/ Sleep \/ Validate \/ Compress

SpecExport == InitExport /\ [][NextExport]_vars

\* Every call the function makes returns: a request ends by its timeouts,
\* the sleep is five seconds.
SpecExportFair == SpecExport /\ WF_vars(NextExport)

\* Attempts made so far.
Attempts == Len(dl.outcomes) + (IF dl.pc \in {"get", "open", "chunks"} THEN 1 ELSE 0)

Succeeded == \E k \in 1..Len(dl.outcomes) : dl.outcomes[k] = "ok"

AllFailedByRequest ==
    \A k \in 1..Len(dl.outcomes) :
        dl.outcomes[k] \in {"Timeout", "RequestException"}

ExportEnded == dl.pc \in {"returned", "raised"}

C16_AtMostMaxRetries ==
    /\ Attempts <= dl.max_retries
    /\ (dl.validated \/ dl.compressed \/ dl.gz # "absent") => Succeeded
    /\ (dl.pc = "returned" /\ ~Succeeded) =>
          /\ AllFailedByRequest
          /\ Len(dl.outcomes) = dl.max_retries
          /\ dl.result = Some(<<"None", 0>>)
          /\ ~dl.validated /\ ~dl.compressed /\ dl.gz = "absent"

\* A step that starts an attempt is taken with no success so far.
C16_NoAttemptAfterSuccess ==
    (dl'.pc = "get" /\ dl.pc # "get") => ~Succeeded

\* C16: at most max_retries attempts, none after the first success, the
\* call always ends, and when every attempt fails by timeout or request
\* error it returns (None, 0) with nothing validated or compressed.
C16_BoundedRetries ==
    /\ []C16_AtMostMaxRetries
    /\ [][C16_NoAttemptAfterSuccess]_vars
    /\ <>ExportEnded

\* Three attempts were allowed and all three failed, by timeout and by
\* request error; the call returned (None, 0).
C16_Witness ==
    /\ dl # <<>>
    /\ dl.pc = "returned"
    /\ dl.max_retries = 3
    /\ dl.outcomes = <<"Timeout", "RequestException", "Timeout">>
    /\ dl.result = Some(<<"None", 0>>)

------------------------------------------------------------------------------
(* Shape of the entries of the Summary Document: claim C17 *)

\* The (window, type) entries built so far.
EntriesOf(label) == summary_data[label].types

\* All seven windows have been aggregated.
DocumentBuilt == Selected /\ wi = NumWindows + 1

\* C17: in every (window, type) entry total >= 1, every status count is
\* >= 1 and the status counts add up to total; a window without records is
\* in the document with an empty types mapping.
C17_EntriesWellFormed ==
    /\ \A label \in DOMAIN summary_data : \A t \in DOMAIN EntriesOf(label) :
          LET e == EntriesOf(label)[t] IN
          /\ e.total >= 1
          /\ \A st \in DOMAIN e.status_counts : e.status_counts[st] >= 1
          /\ SumOver(e.status_counts, DOMAIN e.status_counts) = e.total
    /\ DocumentBuilt =>
          \A i \in 1..Len(windows) :
              /\ windows[i].label \in DOMAIN summary_data
              /\ windows[i].subset = <<>> =>
                    EntriesOf(windows[i].label) = <<>>
              /\ EntriesOf(windows[i].label) = <<>> =>
                    windows[i].subset = <<>>
    /\ (pc = "done" /\ exc = "") =>
          /\ DocumentBuilt
          /\ FileAt(fs, dest) = Some(Full(summary_data))

\* A written document with a type counted three times under two statuses
\* and nothing in the last four hours.
C17_Witness ==
    /\ pc = "done" /\ exc = ""
    /\ FileAt(fs, dest) = Some(Full(summary_data))
    /\ \E t \in DOMAIN EntriesOf("All-Time") :
          /\ EntriesOf("All-Time")[t].total = 3
          /\ Cardinality(DOMAIN EntriesOf("All-Time")[t].status_counts) = 2
    /\ EntriesOf("Last 4 Hours") = <<>>

====
